---- MODULE Spec2Model ----
(***************************************************************************)
(* ogo: a static file server with OpenBSD pledge/unveil sandboxing, a      *)
(* logging middleware and a signal-triggered graceful shutdown.            *)
(*                                                                         *)
(* The model follows func main and its helpers.  The repository holds two  *)
(* revisions of the lifecycle controller that call the sandbox and the     *)
(* middleware packages: src/main.go (it waits on <-stop alone and fatal    *)
(* always exits 1) and src/unnamed/part_000 (a select over errCh and stop, *)
(* fatal takes the exit code; the second half of src/unnamed/part_001 is   *)
(* the same controller with signal.NotifyContext).  The variable rev       *)
(* fixes, for one process run, which of them was built.                    *)
(*                                                                         *)
(* net/http (ListenAndServe, Serve, Shutdown), os/signal and the unix      *)
(* syscalls are libraries: they are modelled by their documented contract  *)
(* at the place main calls them.                                           *)
(***************************************************************************)
EXTENDS Integers, Sequences, FiniteSets, TLC

VARIABLES
    rev,          \* which revision of main was built: "main.go" | "part_000"
    platform,     \* build tag: "openbsd" (sandbox.go) | "other" (sandbox_other.go)
    pc,           \* position of the main goroutine
    exitCode,     \* the process exit code, meaningful once pc = "exited"
    steps,        \* the sandbox calls made so far, in order, with their results
    notified,     \* signal.Notify(stop, ...) has been registered
    stop,         \* number of signals buffered in the stop channel (capacity 1)
    errCh,        \* the buffered error channel (capacity 1), a sequence of errors
    errChClosed,  \* close(errCh) has been called
    lpc,          \* position of the goroutine that runs server.ListenAndServe
    listenErr,    \* what ListenAndServe returned ("none" while it has not)
    lnOpen,       \* the listener is open and accepting
    inShutdown,   \* server.Shutdown has been called (http.Server.inShutdown)
    ctxExpired,   \* the shutdown context's deadline has passed
    polledBusy,   \* Shutdown's last poll found a connection that is not idle
    shutdownErr,  \* what server.Shutdown returned ("none" while it has not)
    req,          \* per request: its place in the accept/middleware/handler chain
    accPhase,     \* per request: the value of pc when its connection was accepted
    mlog,         \* the log entries written by main and its goroutine, in order
    sigCount,     \* number of termination signals delivered to the process
    first,        \* which source arrived first: "none" | "signal" | "error"
    outcome,      \* which way main left its wait: "none" | "shutdown" | "failed"
    emitted,      \* per request: the messages of the entries the middleware logged
    rid,          \* per request: requestID, a sequence of characters
    idSrc,        \* per request: what the random source and the clock gave
    rlog,         \* the entries written by the middleware and its handlers, in order
    statusCode,   \* per request: responseWriter.statusCode
    rwCalls,      \* per request: the calls the inner handler made on the adapter
    sinkCap,      \* per request: what the underlying ResponseWriter implements
    pool,         \* requestIDPool: the buffers it holds
    bufMem,       \* per buffer: the bytes in it
    held          \* per request: the buffer getRequestID has taken, or 0

vars == <<rev, platform, pc, exitCode, steps, notified, stop, errCh, errChClosed,
          lpc, listenErr, lnOpen, inShutdown, ctxExpired, polledBusy, shutdownErr,
          req, accPhase, mlog, sigCount, first, outcome, emitted, rid, idSrc,
          rlog, statusCode, rwCalls, sinkCap, pool, bufMem, held>>

\* the state of the middleware's requests, which the controller never touches
\* the buffers of the request identifiers
poolvars == <<pool, bufMem, held>>

mwvars == <<rid, idSrc, rlog, statusCode, rwCalls, sinkCap, poolvars>>

----------------------------------------------------------------------------
(* Bounds of the model *)

\* number of client connections that may arrive during one process run
MaxReq == 2

\* number of termination signals that may be delivered during one process run
MaxSignals == 2

\* the calls one handler makes on its adapter
MaxCalls == 3

Requests == 1..MaxReq

----------------------------------------------------------------------------
(* Program constants *)

\* const ( fatalDirCode = iota + 1; fatalSandboxCode; fatalServerCode )
fatalDirCode == 1

fatalSandboxCode == 2

fatalServerCode == 3

\* requestIDSize: the size of the request ID in bytes
requestIDSize == 8

\* http.StatusOK
StatusOK == 200

\* a buffer of requestIDSize bytes, all zero but the last
Buf(last) == [i \in 1..requestIDSize |-> IF i = requestIDSize THEN last ELSE 0]

\* the buffers requestIDPool.New can make: each request takes one buffer,
\* once
BufIds == Requests

\* make(chan os.Signal, 1) and make(chan error, 1)
ChanCap == 1

Revisions == {"main.go", "part_000"}

Platforms == {"openbsd", "other"}

----------------------------------------------------------------------------
(* Helpers *)

\* a request whose connection is accepted and whose handler has not returned
InFlight == {"accepted", "got", "read", "encoded", "gotid", "handling"}

Alive == pc # "exited"

\* a request that has not asked for its identifier yet
NoSrc == [err |-> FALSE, bytes |-> <<>>, nano |-> 0]

\* what happens to the requests when the process exits: the goroutines that
\* still run a handler are killed with it
KillRequests == [r \in Requests |-> IF req[r] \in InFlight THEN "abandoned" ELSE req[r]]

\* the code os.Exit is called with by fatal(code, err, msg); src/main.go's
\* fatal(err, msg) takes no code and always exits 1
ExitCodeOf(code) == IF rev = "main.go" THEN 1 ELSE code

\* fatal: log the message, exit the process
Fatal(code, msg) ==
    /\ mlog' = Append(mlog, msg)
    /\ exitCode' = ExitCodeOf(code)
    /\ pc' = "exited"
    /\ req' = KillRequests

----------------------------------------------------------------------------
(* Sandbox negotiation *)

\* mutant: the calls reach the operating system on every platform
SandboxResultsEverywhere(p) == [1..3 -> BOOLEAN]

\* what the three platform calls would return (TRUE: nil, FALSE: an error):
\* unix.Unveil, unix.UnveilBlock and unix.Pledge may each fail on OpenBSD,
\* the other build's functions return nil
SandboxResults(p) ==
    IF p = "openbsd" THEN [1..3 -> BOOLEAN] ELSE {[i \in 1..3 |-> TRUE]}

\* the promises main asks for
PledgePromises == IF rev = "main.go" THEN "stdio rpath inet dns" ELSE "stdio rpath inet"

\* mutant: a best-effort negotiation that goes on after a failed step
SetupSecurityCallsBestEffort(res) ==
    <<[name |-> "Unveil", arg |-> "absDir r", ok |-> res[1]],
      [name |-> "UnveilBlock", arg |-> "", ok |-> res[2]],
      [name |-> "Pledge", arg |-> PledgePromises, ok |-> res[3]]>>

\* mutant: the syscalls are restricted before the visibility list is locked
SetupSecurityCallsPledgeFirst(res) ==
    LET c1 == <<[name |-> "Unveil", arg |-> "absDir r", ok |-> res[1]]>>
        c2 == Append(c1, [name |-> "Pledge", arg |-> PledgePromises, ok |-> res[3]])
        c3 == Append(c2, [name |-> "UnveilBlock", arg |-> "", ok |-> res[2]])
    IN  IF ~res[1] THEN c1
        ELSE IF ~res[3] THEN c2
        ELSE c3

\* setupSecurity: the calls it makes, in order, when the platform answers res;
\* it returns at the first error
SetupSecurityCalls(res) ==
    LET c1 == <<[name |-> "Unveil", arg |-> "absDir r", ok |-> res[1]]>>
        c2 == Append(c1, [name |-> "UnveilBlock", arg |-> "", ok |-> res[2]])
        c3 == Append(c2, [name |-> "Pledge", arg |-> PledgePromises, ok |-> res[3]])
    IN  IF ~res[1] THEN c1
        ELSE IF ~res[2] THEN c2
        ELSE c3

\* mutant: only the error of Unveil is returned
SetupSecurityErrUnveilOnly(calls) == ~calls[1].ok

\* setupSecurity's result: err != nil
SetupSecurityErr(calls) == \E i \in 1..Len(calls) : ~calls[i].ok

----------------------------------------------------------------------------
(* Init: the process has parsed its flags and set up the logger *)

Init ==
    /\ rev \in Revisions
    /\ platform \in Platforms
    /\ pc = "init"
    /\ exitCode = 0
    /\ steps = <<>>
    /\ notified = FALSE
    /\ stop = 0
    /\ errCh = <<>>
    /\ errChClosed = FALSE
    /\ lpc = "none"
    /\ listenErr = "none"
    /\ lnOpen = FALSE
    /\ inShutdown = FALSE
    /\ ctxExpired = FALSE
    /\ polledBusy = FALSE
    /\ shutdownErr = "none"
    /\ req = [r \in Requests |-> "none"]
    /\ accPhase = [r \in Requests |-> "none"]
    /\ mlog = <<>>
    /\ sigCount = 0
    /\ first = "none"
    /\ outcome = "none"
    /\ emitted = [r \in Requests |-> {}]
    /\ rid = [r \in Requests |-> <<>>]
    /\ idSrc = [r \in Requests |-> NoSrc]
    /\ rlog = <<>>
    /\ statusCode = [r \in Requests |-> 0]
    /\ rwCalls = [r \in Requests |-> <<>>]
    /\ sinkCap = [r \in Requests |-> "none"]
    /\ pool = {}
    /\ bufMem = [b \in BufIds |-> Buf(0)]
    /\ held = [r \in Requests |-> 0]

----------------------------------------------------------------------------
(* The main goroutine *)

\* absDir, err := checkDirectory(dir); if err != nil { fatal(...) }
\* mutant: a bad directory is logged and the start-up goes on
CheckDirectoryContinues ==
    /\ pc = "init"
    /\ \E ok \in BOOLEAN :
         /\ pc' = "sandbox"
         /\ mlog' = IF ok THEN mlog ELSE Append(mlog, "invalid directory")
         /\ UNCHANGED <<exitCode, req>>
    /\ UNCHANGED <<mwvars, emitted, rev, platform, steps, notified, stop, errCh, errChClosed, lpc,
                   listenErr, lnOpen, inShutdown, ctxExpired, polledBusy,
                   shutdownErr, accPhase, sigCount, first, outcome>>

CheckDirectory ==
    /\ pc = "init"
    /\ \E ok \in BOOLEAN :
         IF ok
         THEN /\ pc' = "sandbox"
              /\ UNCHANGED <<mlog, exitCode, req>>
         ELSE Fatal(fatalDirCode, "invalid directory")
    /\ UNCHANGED <<mwvars, emitted, rev, platform, steps, notified, stop, errCh, errChClosed, lpc,
                   listenErr, lnOpen, inShutdown, ctxExpired, polledBusy,
                   shutdownErr, accPhase, sigCount, first, outcome>>

\* if err = setupSecurity(absDir); err != nil { fatal(...) }
SetupSecurity ==
    /\ pc = "sandbox"
    /\ \E res \in SandboxResults(platform) :
         /\ steps' = SetupSecurityCalls(res)
         /\ IF SetupSecurityErr(steps')
            THEN Fatal(fatalSandboxCode, "failed to setup security restrictions")
            ELSE /\ pc' = "setup"
                 /\ UNCHANGED <<mlog, exitCode, req>>
    /\ UNCHANGED <<mwvars, emitted, rev, platform, notified, stop, errCh, errChClosed, lpc,
                   listenErr, lnOpen, inShutdown, ctxExpired, polledBusy,
                   shutdownErr, accPhase, sigCount, first, outcome>>

\* the handler chain and the http.Server are built, the stop channel is
\* registered with signal.Notify, errCh is made
SetupServer ==
    /\ pc = "setup"
    /\ pc' = "spawn"
    /\ notified' = TRUE
    /\ UNCHANGED <<mwvars, emitted, rev, platform, exitCode, steps, stop, errCh, errChClosed, lpc,
                   listenErr, lnOpen, inShutdown, ctxExpired, polledBusy,
                   shutdownErr, req, accPhase, mlog, sigCount, first, outcome>>

\* go func() { ... server.ListenAndServe() ... }()
Spawn ==
    /\ pc = "spawn"
    /\ pc' = "wait"
    /\ lpc' = "start"
    /\ UNCHANGED <<mwvars, emitted, rev, platform, exitCode, steps, notified, stop, errCh,
                   errChClosed, listenErr, lnOpen, inShutdown, ctxExpired,
                   polledBusy, shutdownErr, req, accPhase, mlog, sigCount, first,
                   outcome>>

\* the cases of main's wait that can proceed at once: <-stop in both
\* revisions, err = <-errCh in the select of part_000 only
StopReady == stop > 0

ErrReady == rev = "part_000" /\ (Len(errCh) > 0 \/ errChClosed)

\* main reaches its wait and a signal is buffered: the stop case is taken
\* (a select with several cases that can proceed takes any one of them)
\* mutant: on the signal main logs "stopped" without calling Shutdown
SelectStopSkipsShutdown ==
    /\ pc = "wait"
    /\ StopReady
    /\ stop' = stop - 1
    /\ outcome' = "shutdown"
    /\ pc' = "stopped"
    /\ UNCHANGED <<mwvars, emitted, rev, platform, exitCode, steps, notified, errCh, errChClosed,
                   lpc, listenErr, lnOpen, inShutdown, ctxExpired, polledBusy,
                   shutdownErr, req, accPhase, mlog, sigCount, first>>

SelectStop ==
    /\ pc = "wait"
    /\ StopReady
    /\ stop' = stop - 1
    /\ outcome' = "shutdown"
    /\ pc' = "gotstop"
    /\ UNCHANGED <<mwvars, emitted, rev, platform, exitCode, steps, notified, errCh, errChClosed,
                   lpc, listenErr, lnOpen, inShutdown, ctxExpired, polledBusy,
                   shutdownErr, req, accPhase, mlog, sigCount, first>>

\* main reaches its select and an error is buffered: the errCh case is taken
SelectErr ==
    /\ pc = "wait"
    /\ ErrReady
    /\ errCh' = IF Len(errCh) > 0 THEN Tail(errCh) ELSE errCh
    /\ outcome' = "failed"
    /\ pc' = "goterr"
    /\ UNCHANGED <<mwvars, emitted, rev, platform, exitCode, steps, notified, stop, errChClosed,
                   lpc, listenErr, lnOpen, inShutdown, ctxExpired, polledBusy,
                   shutdownErr, req, accPhase, mlog, sigCount, first>>

\* main reaches its wait and no case can proceed: it blocks, and the first
\* send on one of its channels is handed to it (Signal, Report)
Park ==
    /\ pc = "wait"
    /\ ~StopReady
    /\ ~ErrReady
    /\ pc' = "parked"
    /\ UNCHANGED <<mwvars, emitted, rev, platform, exitCode, steps, notified, stop, errCh,
                   errChClosed, lpc, listenErr, lnOpen, inShutdown, ctxExpired,
                   polledBusy, shutdownErr, req, accPhase, mlog, sigCount, first,
                   outcome>>

\* case err = <-errCh: fatal(fatalServerCode, err, "server failed")
OnErr ==
    /\ pc = "goterr"
    /\ Fatal(fatalServerCode, "server failed")
    /\ UNCHANGED <<mwvars, emitted, rev, platform, steps, notified, stop, errCh, errChClosed, lpc,
                   listenErr, lnOpen, inShutdown, ctxExpired, polledBusy,
                   shutdownErr, accPhase, sigCount, first, outcome>>

\* mutant: Shutdown marks the server as shutting down and leaves the
\* listener open
CallShutdownListenerOpen ==
    /\ pc = "gotstop"
    /\ mlog' = Append(mlog, "shutting down server")
    /\ inShutdown' = TRUE
    /\ pc' = "shutdown"
    /\ UNCHANGED <<mwvars, emitted, rev, platform, exitCode, steps, notified, stop, errCh,
                   errChClosed, lpc, listenErr, lnOpen, ctxExpired, polledBusy,
                   shutdownErr, req, accPhase, sigCount, first, outcome>>

\* case <-stop: slog.Info("shutting down server", ...), then ctx is made
\* with the timeout and server.Shutdown(ctx) begins: the server is marked as
\* shutting down and its listeners are closed
CallShutdown ==
    /\ pc = "gotstop"
    /\ mlog' = Append(mlog, "shutting down server")
    /\ inShutdown' = TRUE
    /\ lnOpen' = FALSE
    /\ pc' = "shutdown"
    /\ UNCHANGED <<mwvars, emitted, rev, platform, exitCode, steps, notified, stop, errCh,
                   errChClosed, lpc, listenErr, ctxExpired, polledBusy,
                   shutdownErr, req, accPhase, sigCount, first, outcome>>

\* mutant: the shutdown context has no deadline
TimeoutNever == FALSE /\ UNCHANGED vars

\* the deadline of context.WithTimeout(context.Background(), timeout) passes
TimeoutFires ==
    /\ pc = "shutdown"
    /\ ~ctxExpired
    /\ ctxExpired' = TRUE
    /\ UNCHANGED <<mwvars, emitted, rev, platform, pc, exitCode, steps, notified, stop, errCh,
                   errChClosed, lpc, listenErr, lnOpen, inShutdown, polledBusy,
                   shutdownErr, req, accPhase, mlog, sigCount, first, outcome>>

\* mutant: Shutdown does not look at the connections
QuiescentUnchecked == TRUE

\* Shutdown's test that every connection is idle
Quiescent == \A r \in Requests : req[r] \notin InFlight

\* mutant: a failed Shutdown is fatal
ShutdownDoneFatal(err) ==
    /\ shutdownErr' = err
    /\ IF err # "nil"
       THEN Fatal(fatalServerCode, "failed to shutdown server gracefully")
       ELSE /\ mlog' = Append(mlog, "stopped")
            /\ pc' = "stopped"
            /\ UNCHANGED <<exitCode, req>>

\* server.Shutdown returned err: a non-nil err is logged, "stopped" is logged
ShutdownDone(err) ==
    /\ shutdownErr' = err
    /\ mlog' = mlog \o (IF err # "nil"
                        THEN <<"failed to shutdown server gracefully">>
                        ELSE <<>>) \o <<"stopped">>
    /\ pc' = "stopped"
    /\ UNCHANGED <<exitCode, req>>

\* Shutdown polls the connections: it returns nil when all are idle,
\* otherwise it goes on waiting for the next poll or for ctx.Done()
ShutdownPoll ==
    /\ pc = "shutdown"
    /\ IF Quiescent
       THEN /\ ShutdownDone("nil")
            /\ UNCHANGED polledBusy
       ELSE /\ polledBusy' = TRUE
            /\ UNCHANGED <<shutdownErr, mlog, pc, exitCode, req>>
    /\ UNCHANGED <<mwvars, emitted, rev, platform, steps, notified, stop, errCh, errChClosed, lpc,
                   listenErr, lnOpen, inShutdown, ctxExpired, accPhase, sigCount,
                   first, outcome>>

\* Shutdown, waiting after a poll that found a busy connection, sees
\* ctx.Done() and returns ctx.Err()
ShutdownDeadline ==
    /\ pc = "shutdown"
    /\ polledBusy
    /\ ctxExpired
    /\ ShutdownDone("deadline exceeded")
    /\ UNCHANGED <<mwvars, emitted, rev, platform, steps, notified, stop, errCh, errChClosed, lpc,
                   listenErr, lnOpen, inShutdown, ctxExpired, polledBusy, accPhase,
                   sigCount, first, outcome>>

\* main returns: the process exits with code 0 and every goroutine ends
\* mutant: before it returns main looks at errCh once more
MainReturnChecksErrCh ==
    /\ pc = "stopped"
    /\ IF Len(errCh) > 0
       THEN /\ Fatal(fatalServerCode, "server failed")
            /\ outcome' = "failed"
       ELSE /\ pc' = "exited"
            /\ exitCode' = 0
            /\ req' = KillRequests
            /\ UNCHANGED <<mlog, outcome>>
    /\ UNCHANGED <<mwvars, emitted, rev, platform, steps, notified, stop, errCh, errChClosed, lpc,
                   listenErr, lnOpen, inShutdown, ctxExpired, polledBusy,
                   shutdownErr, accPhase, sigCount, first>>

MainReturn ==
    /\ pc = "stopped"
    /\ pc' = "exited"
    /\ exitCode' = 0
    /\ req' = KillRequests
    /\ UNCHANGED <<mwvars, emitted, rev, platform, steps, notified, stop, errCh, errChClosed, lpc,
                   listenErr, lnOpen, inShutdown, ctxExpired, polledBusy,
                   shutdownErr, accPhase, mlog, sigCount, first, outcome>>

----------------------------------------------------------------------------
(* The operating system *)

\* SIGINT or SIGTERM is delivered after signal.Notify (before it the signal
\* kills the process, which then has no exit code of its own): os/signal
\* sends it to stop without blocking.  It is handed to main when main is blocked in its wait, else it
\* is buffered, and dropped when the channel is full
Signal ==
    /\ Alive
    /\ notified
    /\ sigCount < MaxSignals
    /\ sigCount' = sigCount + 1
    /\ first' = IF first = "none" THEN "signal" ELSE first
    /\ IF pc = "parked"
       THEN /\ pc' = "gotstop"
            /\ outcome' = "shutdown"
            /\ UNCHANGED stop
       ELSE /\ stop' = IF stop < ChanCap THEN stop + 1 ELSE stop
            /\ UNCHANGED <<pc, outcome>>
    /\ UNCHANGED <<mwvars, emitted, rev, platform, exitCode, steps, notified, errCh, errChClosed,
                   lpc, listenErr, lnOpen, inShutdown, ctxExpired, polledBusy,
                   shutdownErr, req, accPhase, mlog>>

----------------------------------------------------------------------------
(* The goroutine that runs the server *)

\* slog.Info("starting file server", ...); server.ListenAndServe():
\* a server that is shutting down returns ErrServerClosed at once,
\* otherwise net.Listen opens the listener or fails
Listen ==
    /\ Alive
    /\ lpc = "start"
    /\ mlog' = Append(mlog, "starting file server")
    /\ IF inShutdown
       THEN /\ listenErr' = "ErrServerClosed"
            /\ lpc' = "returned"
            /\ UNCHANGED lnOpen
       ELSE \E ok \in BOOLEAN :
              IF ok
              THEN /\ lnOpen' = TRUE
                   /\ lpc' = "serving"
                   /\ UNCHANGED listenErr
              ELSE /\ listenErr' = "listen error"
                   /\ lpc' = "returned"
                   /\ UNCHANGED lnOpen
    /\ UNCHANGED <<mwvars, emitted, rev, platform, pc, exitCode, steps, notified, stop, errCh,
                   errChClosed, inShutdown, ctxExpired, polledBusy, shutdownErr,
                   req, accPhase, sigCount, first, outcome>>

\* the accept loop of Serve ends with an error of the listener
ServeFail ==
    /\ Alive
    /\ lpc = "serving"
    /\ lnOpen
    /\ lnOpen' = FALSE
    /\ listenErr' = "accept error"
    /\ lpc' = "returned"
    /\ UNCHANGED <<mwvars, emitted, rev, platform, pc, exitCode, steps, notified, stop, errCh,
                   errChClosed, inShutdown, ctxExpired, polledBusy, shutdownErr,
                   req, accPhase, mlog, sigCount, first, outcome>>

\* the accept loop of Serve finds the listener closed by Shutdown
ServeClosed ==
    /\ Alive
    /\ lpc = "serving"
    /\ inShutdown
    /\ listenErr' = "ErrServerClosed"
    /\ lpc' = "returned"
    /\ UNCHANGED <<mwvars, emitted, rev, platform, pc, exitCode, steps, notified, stop, errCh,
                   errChClosed, lnOpen, inShutdown, ctxExpired, polledBusy,
                   shutdownErr, req, accPhase, mlog, sigCount, first, outcome>>

\* mutant: every non-nil result of ListenAndServe is reported
ReportableAny(err) == err # "nil"

\* listenErr != nil && !errors.Is(listenErr, http.ErrServerClosed)
Reportable(err) == err # "nil" /\ err # "ErrServerClosed"

\* the goroutine's last statement: part_000 sends a reportable error on
\* errCh (handed to main when main is blocked in its select, else buffered)
\* and closes the channel; src/main.go only logs the error
Report ==
    /\ Alive
    /\ lpc = "returned"
    /\ lpc' = "done"
    /\ IF Reportable(listenErr)
       THEN /\ first' = IF first = "none" THEN "error" ELSE first
            /\ IF rev = "part_000"
               THEN /\ errChClosed' = TRUE
                    /\ UNCHANGED mlog
                    /\ IF pc = "parked"
                       THEN /\ pc' = "goterr"
                            /\ outcome' = "failed"
                            /\ UNCHANGED errCh
                       ELSE /\ errCh' = Append(errCh, listenErr)
                            /\ UNCHANGED <<pc, outcome>>
               ELSE /\ mlog' = Append(mlog, "failed to start file server")
                    /\ UNCHANGED <<errCh, errChClosed, pc, outcome>>
       ELSE UNCHANGED <<first, errCh, errChClosed, mlog, pc, outcome>>
    /\ UNCHANGED <<mwvars, emitted, rev, platform, exitCode, steps, notified, stop, listenErr,
                   lnOpen, inShutdown, ctxExpired, polledBusy, shutdownErr, req,
                   accPhase, sigCount>>

----------------------------------------------------------------------------
(* Requests *)

\* the accept loop accepts a connection and starts its goroutine
Accept(r) ==
    /\ Alive
    /\ lpc = "serving"
    /\ lnOpen
    /\ req[r] = "none"
    /\ req' = [req EXCEPT ![r] = "accepted"]
    /\ accPhase' = [accPhase EXCEPT ![r] = pc]
    /\ UNCHANGED <<mwvars, emitted, rev, platform, pc, exitCode, steps, notified, stop, errCh,
                   errChClosed, lpc, listenErr, lnOpen, inShutdown, ctxExpired,
                   polledBusy, shutdownErr, mlog, sigCount, first, outcome>>

\* mutant: the "response" entry is written together with the "request" entry
HandlerStartLogsBoth(r) ==
    /\ Alive
    /\ req[r] = "accepted"
    /\ req' = [req EXCEPT ![r] = "handling"]
    /\ emitted' = [emitted EXCEPT ![r] = @ \cup {"request", "response"}]
    /\ UNCHANGED <<mwvars, rev, platform, pc, exitCode, steps, notified, stop, errCh,
                   errChClosed, lpc, listenErr, lnOpen, inShutdown, ctxExpired,
                   polledBusy, shutdownErr, accPhase, mlog, sigCount, first,
                   outcome>>

\* the middleware logs "request" and calls the inner handler
HandlerStart(r) ==
    /\ Alive
    /\ req[r] = "accepted"
    /\ req' = [req EXCEPT ![r] = "handling"]
    /\ emitted' = [emitted EXCEPT ![r] = @ \cup {"request"}]
    /\ UNCHANGED <<mwvars, rev, platform, pc, exitCode, steps, notified, stop, errCh,
                   errChClosed, lpc, listenErr, lnOpen, inShutdown, ctxExpired,
                   polledBusy, shutdownErr, accPhase, mlog, sigCount, first,
                   outcome>>

\* the inner handler returns and the middleware logs "response"
HandlerReturn(r) ==
    /\ Alive
    /\ req[r] = "handling"
    /\ req' = [req EXCEPT ![r] = "done"]
    /\ emitted' = [emitted EXCEPT ![r] = @ \cup {"response"}]
    /\ UNCHANGED <<mwvars, rev, platform, pc, exitCode, steps, notified, stop, errCh,
                   errChClosed, lpc, listenErr, lnOpen, inShutdown, ctxExpired,
                   polledBusy, shutdownErr, accPhase, mlog, sigCount, first,
                   outcome>>

----------------------------------------------------------------------------
(* The logging middleware: identifiers *)

\* the variables of the controller, its goroutine and the operating system
ctlvars == <<rev, platform, pc, exitCode, steps, notified, stop, errCh,
             errChClosed, lpc, listenErr, lnOpen, inShutdown, ctxExpired,
             polledBusy, shutdownErr, accPhase, mlog, sigCount, first, outcome>>

\* hex.EncodeToString's alphabet
HexDigits == <<"0", "1", "2", "3", "4", "5", "6", "7",
               "8", "9", "a", "b", "c", "d", "e", "f">>

RECURSIVE HexEncode(_)
\* hex.EncodeToString: two characters per byte, high half first
HexEncode(b) ==
    IF b = <<>> THEN <<>>
    ELSE <<HexDigits[(Head(b) \div 16) + 1], HexDigits[(Head(b) % 16) + 1]>>
         \o HexEncode(Tail(b))

\* the decimal digits
DecDigits == <<"0", "1", "2", "3", "4", "5", "6", "7", "8", "9">>

RECURSIVE Itoa(_)
\* strconv.Itoa of a non-negative int: its decimal digits, no padding
Itoa(n) ==
    IF n < 10 THEN <<DecDigits[n + 1]>>
    ELSE Itoa(n \div 10) \o <<DecDigits[(n % 10) + 1]>>

\* the contents rand.Read may leave in the buffer
RandBytes == {Buf(1), Buf(255)}

\* what rand.Read(b) returns: it fills b entirely and returns len(b), or it
\* fails
RandReads ==
    [n : {requestIDSize}, err : {FALSE}, bytes : RandBytes]
        \cup {[n |-> 0, err |-> TRUE, bytes |-> Buf(0)]}

\* the values time.Now().Nanosecond() may give
Nanos == {0, 999999999}

\* getRequestID, given what rand.Read returned
getRequestID(rd) ==
    IF rd.err THEN [id |-> <<>>, err |-> TRUE]
    ELSE IF rd.n # requestIDSize THEN [id |-> <<>>, err |-> TRUE]
    ELSE [id |-> HexEncode(rd.bytes), err |-> FALSE]

\* one entry of the structured log: its message, the keys of its
\* attributes, and the values of the id and of the status.  owner is not
\* part of the output: it is the request whose closure wrote the entry,
\* and whose method, path, remote address and clock the other values are.
Entry(msg, attrs, id, r, status) ==
    [msg |-> msg, attrs |-> attrs, id |-> id, owner |-> r, status |-> status]

\* slog.Default().With("id", requestID, "method", r.Method, "path", r.URL.Path)
LoggerAttrs == {"id", "method", "path"}

\* slog.Error("requestID", "error", err), on the default logger: no id
ErrorEntry(r) == Entry("requestID", {"error"}, <<>>, r, 0)

\* mutant: the first entry lacks the remote address
RequestEntryNoRemote(r) == Entry("request", LoggerAttrs, rid[r], r, 0)

\* logger.Info("request", "remote", r.RemoteAddr)
RequestEntry(r) == Entry("request", LoggerAttrs \cup {"remote"}, rid[r], r, 0)

\* mutant: the second entry is written by the default logger, without the id
ResponseEntryNoID(r) == Entry("response", {"duration", "status"}, <<>>, r, statusCode[r])

\* mutant: a status that was never captured is logged as 200
ResponseEntryDefaultsOK(r) ==
    Entry("response", LoggerAttrs \cup {"duration", "status"}, rid[r], r,
          IF statusCode[r] = 0 THEN StatusOK ELSE statusCode[r])

\* logger.Info("response", "duration", duration, "status", wrapped.statusCode)
ResponseEntry(r) ==
    Entry("response", LoggerAttrs \cup {"duration", "status"}, rid[r], r, statusCode[r])

----------------------------------------------------------------------------
(* The logging middleware: one request *)

\* what the underlying http.ResponseWriter implements besides the interface
\* itself: http.Flusher and http.Hijacker ("full") or neither ("plain")
SinkCaps == {"plain", "full"}

\* mutant: a failed identifier ends the request
LoggingGetIDAborts(r) ==
    /\ Alive
    /\ req[r] = "accepted"
    /\ \E rd \in RandReads :
         IF getRequestID(rd).err
         THEN /\ idSrc' = [idSrc EXCEPT ![r] = [err |-> TRUE, bytes |-> <<>>, nano |-> 0]]
              /\ rlog' = Append(rlog, ErrorEntry(r))
              /\ req' = [req EXCEPT ![r] = "done"]
              /\ UNCHANGED rid
         ELSE /\ idSrc' = [idSrc EXCEPT ![r] = [err |-> FALSE, bytes |-> rd.bytes, nano |-> 0]]
              /\ rid' = [rid EXCEPT ![r] = getRequestID(rd).id]
              /\ req' = [req EXCEPT ![r] = "gotid"]
              /\ UNCHANGED rlog
    /\ UNCHANGED <<ctlvars, poolvars, emitted, statusCode, rwCalls, sinkCap>>

\* requestID, err := getRequestID(); on an error, log it and fall back to
\* the nanosecond of the clock
LoggingGetID(r) ==
    /\ Alive
    /\ req[r] = "accepted"
    /\ \E rd \in RandReads :
         IF getRequestID(rd).err
         THEN \E ns \in Nanos :
                /\ idSrc' = [idSrc EXCEPT ![r] = [err |-> TRUE, bytes |-> <<>>, nano |-> ns]]
                /\ rlog' = Append(rlog, ErrorEntry(r))
                /\ rid' = [rid EXCEPT ![r] = Itoa(ns)]
         ELSE /\ idSrc' = [idSrc EXCEPT ![r] = [err |-> FALSE, bytes |-> rd.bytes, nano |-> 0]]
              /\ rid' = [rid EXCEPT ![r] = getRequestID(rd).id]
              /\ UNCHANGED rlog
    /\ req' = [req EXCEPT ![r] = "gotid"]
    /\ UNCHANGED <<ctlvars, poolvars, emitted, statusCode, rwCalls, sinkCap>>

\* logger.Info("request"), wrapped := &responseWriter{ResponseWriter: w},
\* h.ServeHTTP(wrapped, r) is entered
LoggingRequest(r) ==
    /\ Alive
    /\ req[r] = "gotid"
    /\ rlog' = Append(rlog, RequestEntry(r))
    /\ emitted' = [emitted EXCEPT ![r] = @ \cup {"request"}]
    /\ \E cap \in SinkCaps : sinkCap' = [sinkCap EXCEPT ![r] = cap]
    /\ statusCode' = [statusCode EXCEPT ![r] = 0]
    /\ req' = [req EXCEPT ![r] = "handling"]
    /\ UNCHANGED <<ctlvars, poolvars, rid, idSrc, rwCalls>>

\* h.ServeHTTP has returned: logger.Info("response")
LoggingResponse(r) ==
    /\ Alive
    /\ req[r] = "handling"
    /\ rlog' = Append(rlog, ResponseEntry(r))
    /\ emitted' = [emitted EXCEPT ![r] = @ \cup {"response"}]
    /\ req' = [req EXCEPT ![r] = "done"]
    /\ UNCHANGED <<ctlvars, poolvars, rid, idSrc, statusCode, rwCalls, sinkCap>>

----------------------------------------------------------------------------
(* The logging middleware: the responseWriter adapter *)

\* the codes a handler passes to WriteHeader
StatusCodes == {201, 404, 500}

\* what the underlying Write returns: (n, err)
SinkWrites == {[n |-> 5, err |-> "nil"], [n |-> 2, err |-> "short write"]}

\* what the underlying Hijack returns: (conn, bufrw, err)
SinkHijacks == {[conn |-> "conn", brw |-> "bufrw", err |-> "nil", panicked |-> FALSE],
                [conn |-> "nil", brw |-> "nil", err |-> "hijack failed", panicked |-> FALSE]}

\* a call that returns nothing, or nothing of that kind
NoWrite == [n |-> 0, err |-> "nil"]
NoHijack == [conn |-> "nil", brw |-> "nil", err |-> "nil", panicked |-> FALSE]

\* one call on the adapter: the status before and after it, the number of
\* calls it made on the sink, the code it was given and the code it gave
\* the sink, what the sink returned and what the adapter returned
NoCall ==
    [kind |-> "none", before |-> 0, after |-> 0, fwd |-> 0, code |-> 0,
     fwdCode |-> 0, sinkRet |-> NoWrite, wret |-> NoWrite, sinkH |-> NoHijack,
     hret |-> NoHijack, panicked |-> FALSE]

\* mutant: the sink is always told 200
WriteHeaderForwardOK(code) == StatusOK

\* the code WriteHeader(code) passes to rw.ResponseWriter.WriteHeader
WriteHeaderForward(code) == code

\* mutant: the type assertion without the ok check panics on a plain sink
FlushUnchecked(cap) ==
    [fwd |-> IF cap = "full" THEN 1 ELSE 0, panicked |-> cap # "full"]

\* Flush: the sink's Flush is called when the sink is an http.Flusher
Flush(cap) == [fwd |-> IF cap = "full" THEN 1 ELSE 0, panicked |-> FALSE]

\* rw.statusCode after WriteHeader(code)
StatusAfterWriteHeader(s, code) == code

\* mutant: Write leaves the zero value alone
StatusAfterWriteKeepsZero(s) == s

\* mutant: Write always records 200
StatusAfterWriteAlwaysOK(s) == StatusOK

\* rw.statusCode after Write(b)
StatusAfterWrite(s) == IF s = 0 THEN StatusOK ELSE s

\* what Write returns, given what the underlying Write returned
WriteReturn(res) == res

\* mutant: the type assertion without the ok check panics on a plain sink
HijackUnchecked(cap, res) ==
    IF cap = "full" THEN res
    ELSE [conn |-> "nil", brw |-> "nil", err |-> "nil", panicked |-> TRUE]

\* what Hijack returns, given the sink and what its Hijack would return
Hijack(cap, res) ==
    IF cap = "full" THEN res
    ELSE [conn |-> "nil", brw |-> "nil", err |-> "not implemented", panicked |-> FALSE]

\* the inner handler is running and may call the adapter once more
CanCall(r) ==
    /\ Alive
    /\ req[r] = "handling"
    /\ Len(rwCalls[r]) < MaxCalls

\* mutant: the status is kept in one place for all requests
RwWriteHeaderShared(r) ==
    /\ CanCall(r)
    /\ \E code \in StatusCodes :
         /\ statusCode' = [q \in Requests |-> StatusAfterWriteHeader(statusCode[q], code)]
         /\ rwCalls' = [rwCalls EXCEPT ![r] =
                Append(@, [NoCall EXCEPT !.kind = "WriteHeader",
                                         !.before = statusCode[r],
                                         !.after = statusCode'[r],
                                         !.fwd = 1,
                                         !.code = code,
                                         !.fwdCode = WriteHeaderForward(code)])]
    /\ UNCHANGED <<ctlvars, poolvars, req, emitted, rid, idSrc, rlog, sinkCap>>

RwWriteHeader(r) ==
    /\ CanCall(r)
    /\ \E code \in StatusCodes :
         /\ statusCode' = [statusCode EXCEPT ![r] = StatusAfterWriteHeader(@, code)]
         /\ rwCalls' = [rwCalls EXCEPT ![r] =
                Append(@, [NoCall EXCEPT !.kind = "WriteHeader",
                                         !.before = statusCode[r],
                                         !.after = statusCode'[r],
                                         !.fwd = 1,
                                         !.code = code,
                                         !.fwdCode = WriteHeaderForward(code)])]
    /\ UNCHANGED <<ctlvars, poolvars, req, emitted, rid, idSrc, rlog, sinkCap>>

RwWrite(r) ==
    /\ CanCall(r)
    /\ \E res \in SinkWrites :
         /\ statusCode' = [statusCode EXCEPT ![r] = StatusAfterWrite(@)]
         /\ rwCalls' = [rwCalls EXCEPT ![r] =
                Append(@, [NoCall EXCEPT !.kind = "Write",
                                         !.before = statusCode[r],
                                         !.after = statusCode'[r],
                                         !.fwd = 1,
                                         !.sinkRet = res,
                                         !.wret = WriteReturn(res)])]
    /\ UNCHANGED <<ctlvars, poolvars, req, emitted, rid, idSrc, rlog, sinkCap>>

RwFlush(r) ==
    /\ CanCall(r)
    /\ rwCalls' = [rwCalls EXCEPT ![r] =
           Append(@, [NoCall EXCEPT !.kind = "Flush",
                                    !.before = statusCode[r],
                                    !.after = statusCode[r],
                                    !.fwd = Flush(sinkCap[r]).fwd,
                                    !.panicked = Flush(sinkCap[r]).panicked])]
    /\ UNCHANGED <<ctlvars, poolvars, req, emitted, rid, idSrc, rlog, statusCode, sinkCap>>

RwHijack(r) ==
    /\ CanCall(r)
    /\ \E res \in SinkHijacks :
         rwCalls' = [rwCalls EXCEPT ![r] =
             Append(@, [NoCall EXCEPT !.kind = "Hijack",
                                      !.before = statusCode[r],
                                      !.after = statusCode[r],
                                      !.fwd = IF sinkCap[r] = "full" THEN 1 ELSE 0,
                                      !.sinkH = IF sinkCap[r] = "full" THEN res ELSE NoHijack,
                                      !.hret = Hijack(sinkCap[r], res),
                                      !.panicked = Hijack(sinkCap[r], res).panicked])]
    /\ UNCHANGED <<ctlvars, poolvars, req, emitted, rid, idSrc, rlog, statusCode, sinkCap>>

----------------------------------------------------------------------------
(* The server while it serves: the controller waits, the listener accepts *)

\* the state main is in once it blocks in its wait and the goroutine serves,
\* on the platform where the sandbox is in force
ServingInit ==
    /\ rev \in Revisions
    /\ platform = "openbsd"
    /\ pc = "parked"
    /\ exitCode = 0
    /\ steps = SetupSecurityCalls([i \in 1..3 |-> TRUE])
    /\ notified = TRUE
    /\ stop = 0
    /\ errCh = <<>>
    /\ errChClosed = FALSE
    /\ lpc = "serving"
    /\ listenErr = "none"
    /\ lnOpen = TRUE
    /\ inShutdown = FALSE
    /\ ctxExpired = FALSE
    /\ polledBusy = FALSE
    /\ shutdownErr = "none"
    /\ req = [r \in Requests |-> "none"]
    /\ accPhase = [r \in Requests |-> "none"]
    /\ mlog = <<"starting file server">>
    /\ sigCount = 0
    /\ first = "none"
    /\ outcome = "none"
    /\ emitted = [r \in Requests |-> {}]
    /\ rid = [r \in Requests |-> <<>>]
    /\ idSrc = [r \in Requests |-> NoSrc]
    /\ rlog = <<>>
    /\ statusCode = [r \in Requests |-> 0]
    /\ rwCalls = [r \in Requests |-> <<>>]
    /\ sinkCap = [r \in Requests |-> "none"]
    /\ pool = {}
    /\ bufMem = [b \in BufIds |-> Buf(0)]
    /\ held = [r \in Requests |-> 0]

\* concurrent requests through the middleware
MwNext ==
    \/ \E r \in Requests : Accept(r)
    \/ \E r \in Requests : LoggingGetID(r)
    \/ \E r \in Requests : LoggingRequest(r)
    \/ \E r \in Requests : LoggingResponse(r)

MwSpec == ServingInit /\ [][MwNext]_vars

\* one request through the middleware, its handler calling the adapter
RwNext ==
    \/ Accept(1)
    \/ LoggingGetID(1)
    \/ LoggingRequest(1)
    \/ RwWriteHeader(1)
    \/ RwWrite(1)
    \/ RwFlush(1)
    \/ RwHijack(1)
    \/ LoggingResponse(1)

RwSpec == ServingInit /\ [][RwNext]_vars

----------------------------------------------------------------------------
(* The logging middleware: getRequestID step by step *)

\* the buffers that exist: in the pool or in the hands of a request
Allocated == pool \cup {held[r] : r \in {q \in Requests : held[q] # 0}}

\* b := requestIDPool.Get().([]byte): Get removes a buffer from the pool and
\* returns it, or it finds (or takes) the pool empty and returns New(), a
\* zeroed buffer no one else has
PoolGet(r) ==
    /\ Alive
    /\ req[r] = "accepted"
    /\ \/ \E b \in pool :
            /\ pool' = pool \ {b}
            /\ held' = [held EXCEPT ![r] = b]
            /\ UNCHANGED bufMem
       \/ \E b \in BufIds \ Allocated :
            /\ \A c \in BufIds \ Allocated : b <= c
            /\ held' = [held EXCEPT ![r] = b]
            /\ bufMem' = [bufMem EXCEPT ![b] = Buf(0)]
            /\ UNCHANGED pool
    /\ req' = [req EXCEPT ![r] = "got"]
    /\ UNCHANGED <<ctlvars, emitted, rid, idSrc, rlog, statusCode, rwCalls, sinkCap>>

\* mutant: the buffer goes back to the pool as soon as it is filled
PoolReadPutsEarly(r) ==
    /\ Alive
    /\ req[r] = "got"
    /\ \E rd \in RandReads :
         /\ idSrc' = [idSrc EXCEPT ![r] = [err |-> rd.err, bytes |-> rd.bytes, nano |-> 0]]
         /\ bufMem' = IF rd.err THEN bufMem ELSE [bufMem EXCEPT ![held[r]] = rd.bytes]
    /\ pool' = pool \cup {held[r]}
    /\ req' = [req EXCEPT ![r] = "read"]
    /\ UNCHANGED <<ctlvars, emitted, rid, rlog, statusCode, rwCalls, sinkCap, held>>

\* n, err := rand.Read(b): the bytes go into the buffer the request holds
PoolRead(r) ==
    /\ Alive
    /\ req[r] = "got"
    /\ \E rd \in RandReads :
         /\ idSrc' = [idSrc EXCEPT ![r] = [err |-> rd.err, bytes |-> rd.bytes, nano |-> 0]]
         /\ bufMem' = IF rd.err THEN bufMem ELSE [bufMem EXCEPT ![held[r]] = rd.bytes]
    /\ req' = [req EXCEPT ![r] = "read"]
    /\ UNCHANGED <<ctlvars, emitted, rid, rlog, statusCode, rwCalls, sinkCap, pool, held>>

\* return hex.EncodeToString(b), nil: the result is computed from the bytes
\* that are in the buffer now; the deferred Put has not run yet
PoolEncode(r) ==
    /\ Alive
    /\ req[r] = "read"
    /\ ~idSrc[r].err
    /\ rid' = [rid EXCEPT ![r] =
                  getRequestID([n |-> requestIDSize, err |-> FALSE,
                                bytes |-> bufMem[held[r]]]).id]
    /\ req' = [req EXCEPT ![r] = "encoded"]
    /\ UNCHANGED <<ctlvars, poolvars, emitted, idSrc, rlog, statusCode, rwCalls, sinkCap>>

\* getRequestID returns: the deferred requestIDPool.Put(b) runs, and Logging
\* logs an error and falls back to the clock
GetRequestIDReturn(r) ==
    /\ Alive
    /\ \/ req[r] = "encoded"
       \/ req[r] = "read" /\ idSrc[r].err
    /\ pool' = pool \cup {held[r]}
    /\ held' = [held EXCEPT ![r] = 0]
    /\ IF idSrc[r].err
       THEN \E ns \in Nanos :
              /\ idSrc' = [idSrc EXCEPT ![r] = [err |-> TRUE, bytes |-> <<>>, nano |-> ns]]
              /\ rlog' = Append(rlog, ErrorEntry(r))
              /\ rid' = [rid EXCEPT ![r] = Itoa(ns)]
       ELSE UNCHANGED <<idSrc, rlog, rid>>
    /\ req' = [req EXCEPT ![r] = "gotid"]
    /\ UNCHANGED <<ctlvars, emitted, statusCode, rwCalls, sinkCap, bufMem>>

\* concurrent requests on their way through getRequestID
PoolNext ==
    \/ \E r \in Requests : Accept(r)
    \/ \E r \in Requests : PoolGet(r)
    \/ \E r \in Requests : PoolRead(r)
    \/ \E r \in Requests : PoolEncode(r)
    \/ \E r \in Requests : GetRequestIDReturn(r)

PoolSpec == ServingInit /\ [][PoolNext]_vars

----------------------------------------------------------------------------
(* The logging middleware: concurrent handlers on their adapters *)

\* the bytes rand.Read gave request r in the state below
ConcBytes(r) == IF r % 2 = 1 THEN Buf(1) ELSE Buf(255)

\* a state the server reaches while it serves: every connection has been
\* accepted, every request has its identifier and its "request" entry, and
\* every inner handler is running
ConcInit ==
    /\ rev \in Revisions
    /\ platform = "openbsd"
    /\ pc = "parked"
    /\ exitCode = 0
    /\ steps = SetupSecurityCalls([i \in 1..3 |-> TRUE])
    /\ notified = TRUE
    /\ stop = 0
    /\ errCh = <<>>
    /\ errChClosed = FALSE
    /\ lpc = "serving"
    /\ listenErr = "none"
    /\ lnOpen = TRUE
    /\ inShutdown = FALSE
    /\ ctxExpired = FALSE
    /\ polledBusy = FALSE
    /\ shutdownErr = "none"
    /\ req = [r \in Requests |-> "handling"]
    /\ accPhase = [r \in Requests |-> "parked"]
    /\ mlog = <<"starting file server">>
    /\ sigCount = 0
    /\ first = "none"
    /\ outcome = "none"
    /\ emitted = [r \in Requests |-> {"request"}]
    /\ rid = [r \in Requests |-> HexEncode(ConcBytes(r))]
    /\ idSrc = [r \in Requests |-> [err |-> FALSE, bytes |-> ConcBytes(r), nano |-> 0]]
    /\ rlog = [r \in Requests |->
                 Entry("request", LoggerAttrs \cup {"remote"}, HexEncode(ConcBytes(r)), r, 0)]
    /\ statusCode = [r \in Requests |-> 0]
    /\ rwCalls = [r \in Requests |-> <<>>]
    /\ sinkCap = [r \in Requests |-> "full"]
    /\ pool = {}
    /\ bufMem = [b \in BufIds |-> Buf(0)]
    /\ held = [r \in Requests |-> 0]

\* the calls all handlers have made
AllCalls == UNION {{<<r, k>> : k \in 1..Len(rwCalls[r])} : r \in Requests}

\* a handler calls WriteHeader while the other handlers run
ConcWriteHeader(r) ==
    /\ Cardinality(AllCalls) < MaxCalls
    /\ RwWriteHeader(r)

\* a handler calls Write while the other handlers run
ConcWrite(r) ==
    /\ Cardinality(AllCalls) < MaxCalls
    /\ RwWrite(r)

ConcNext ==
    \/ \E r \in Requests : ConcWriteHeader(r)
    \/ \E r \in Requests : ConcWrite(r)
    \/ \E r \in Requests : LoggingResponse(r)

ConcSpec == ConcInit /\ [][ConcNext]_vars

----------------------------------------------------------------------------
(* Specifications *)

MainStep ==
    \/ CheckDirectory
    \/ SetupSecurity
    \/ SetupServer
    \/ Spawn
    \/ SelectStop
    \/ SelectErr
    \/ Park
    \/ OnErr
    \/ CallShutdown
    \/ ShutdownPoll
    \/ ShutdownDeadline
    \/ MainReturn

Next ==
    \/ CheckDirectory
    \/ SetupSecurity
    \/ SetupServer
    \/ Spawn
    \/ SelectStop
    \/ SelectErr
    \/ Park
    \/ OnErr
    \/ CallShutdown
    \/ TimeoutFires
    \/ ShutdownPoll
    \/ ShutdownDeadline
    \/ MainReturn
    \/ Signal
    \/ Listen
    \/ ServeFail
    \/ ServeClosed
    \/ Report
    \/ \E r \in Requests : Accept(r)
    \/ \E r \in Requests : HandlerStart(r)
    \/ \E r \in Requests : HandlerReturn(r)

Spec == Init /\ [][Next]_vars

\* The Go scheduler runs a goroutine that can run and a timer fires when its
\* time has come: the main goroutine and the shutdown deadline are weakly
\* fair.  A handler may never return and a signal may never come.
FairSpec == Spec /\ WF_vars(MainStep) /\ WF_vars(TimeoutFires)

----------------------------------------------------------------------------
(* Properties *)

Logged(m) == \E i \in 1..Len(mlog) : mlog[i] = m

\* the order the spec fixes for the negotiation
SandboxOrder == <<"Unveil", "UnveilBlock", "Pledge">>

\* all three steps were invoked and returned success
SandboxComplete ==
    /\ Len(steps) = Len(SandboxOrder)
    /\ \A i \in 1..Len(steps) : steps[i].name = SandboxOrder[i] /\ steps[i].ok

\* the controller took the shutdown path and has logged "stopped"
Stopped == outcome = "shutdown" /\ pc \in {"stopped", "exited"}

\* C1: the sandbox negotiation has fully completed (Unveil, UnveilBlock,
\* Pledge, each returning success) whenever the serving goroutine exists,
\* the listener is open or a request has been accepted.
C1_SandboxBeforeListener ==
    (lpc # "none" \/ lnOpen \/ \E r \in Requests : req[r] # "none")
        => SandboxComplete

\* C1 witness: on OpenBSD, with the three steps done, a request is being handled
C1_Witness ==
    /\ platform = "openbsd"
    /\ SandboxComplete
    /\ lnOpen
    /\ \E r \in Requests : req[r] = "handling"

\* C2: when a sandbox step has returned an error, it is the last step that
\* was invoked, the process has exited with a non-zero code, and the serving
\* goroutine was never started, the listener never opened, no connection
\* accepted.
C2_SandboxFailureAborts ==
    \A i \in 1..Len(steps) :
        ~steps[i].ok =>
            /\ i = Len(steps)
            /\ pc = "exited"
            /\ exitCode # 0
            /\ ~notified
            /\ lpc = "none"
            /\ ~lnOpen
            /\ \A r \in Requests : req[r] = "none"

\* C2 witness: the lock-visibility step failed after a successful Unveil
C2_Witness ==
    /\ Len(steps) = 2
    /\ steps[1].ok
    /\ steps[2].name = "UnveilBlock"
    /\ ~steps[2].ok
    /\ pc = "exited"

\* C3: the steps invoked are, in order, Unveil(absDir, "r"), UnveilBlock,
\* Pledge; none is invoked unless the one before it returned success.
C3_SandboxOrder ==
    /\ Len(steps) <= Len(SandboxOrder)
    /\ \A i \in 1..Len(steps) :
         /\ steps[i].name = SandboxOrder[i]
         /\ i > 1 => steps[i - 1].ok
    /\ Len(steps) >= 1 => steps[1].arg = "absDir r"

\* C3 witness: all three steps were invoked and the last one failed
C3_Witness ==
    /\ Len(steps) = 3
    /\ steps[2].ok
    /\ ~steps[3].ok

\* C4: the exit code identifies the outcome: 0 after "stopped", 1 for an
\* invalid directory, 2 for a sandbox failure, 3 for a server failure.
C4_ExitCodeIdentifiesOutcome ==
    pc = "exited" =>
        /\ Logged("stopped") => exitCode = 0
        /\ Logged("invalid directory") => exitCode = 1
        /\ Logged("failed to setup security restrictions") => exitCode = 2
        /\ Logged("server failed") => exitCode = 3

\* C5: when the listener's failure is reported before any termination signal
\* has arrived, main does not take the shutdown path and, once the process
\* has exited, its code is the fatal server code.
C5_ListenerFailureIsFatal ==
    first = "error" =>
        /\ outcome # "shutdown"
        /\ pc = "exited" => exitCode = fatalServerCode

\* C6: the source that arrived first decides the way main leaves its wait:
\* the shutdown path for a signal, the fatal path for a listener error.
C6_FirstArrivalWins ==
    outcome # "none" =>
        outcome = (IF first = "signal" THEN "shutdown" ELSE "failed")

\* C7: when Shutdown returned because its deadline passed with a connection
\* still busy, the error is logged, "stopped" is logged, no fatal message is
\* logged, and the process, once it has exited, has exit code 0.
C7_TimeoutIsNotFatal ==
    shutdownErr = "deadline exceeded" =>
        /\ Stopped
        /\ Logged("failed to shutdown server gracefully")
        /\ Logged("stopped")
        /\ ~Logged("server failed")
        /\ pc = "exited" => exitCode = 0

\* C7 witness: the deadline passed, the process exited and a request was abandoned
C7_Witness ==
    /\ shutdownErr = "deadline exceeded"
    /\ pc = "exited"
    /\ \E r \in Requests : req[r] = "abandoned"

\* C8: once main has received the termination signal, the controller
\* eventually reaches Stopped, whether or not the handlers return.
C8_ShutdownTerminates == (pc = "gotstop") ~> Stopped

\* C8 witness: Stopped is reached while a handler has still not returned
C8_Witness ==
    /\ pc = "stopped"
    /\ \E r \in Requests : req[r] = "handling"

\* C9 as stated: no connection is accepted once main has received the signal
C9_NoAcceptAfterSignal ==
    \A r \in Requests : accPhase[r] \notin {"gotstop", "shutdown", "stopped", "exited"}

\* C9 amended: no connection is accepted once server.Shutdown has been
\* called: every request was accepted before Shutdown closed the listener.
C9_NoAcceptAfterShutdownCall ==
    \A r \in Requests : accPhase[r] \notin {"shutdown", "stopped", "exited"}

\* C9 witness: Shutdown is waiting for a request accepted while serving
C9_Witness ==
    /\ pc = "shutdown"
    /\ \E r \in Requests : accPhase[r] \in {"wait", "parked"} /\ req[r] = "handling"

\* C10: Stopped is reached only with no request in flight or with the
\* shutdown deadline passed.
C10_StoppedOnlyDrainedOrTimeout ==
    Stopped =>
        \/ ctxExpired
        \/ \A r \in Requests : req[r] \notin {"accepted", "handling", "abandoned"}

\* C10 witness: Shutdown found a busy connection, waited, and returned
\* before the deadline once the request was done
C10_Witness ==
    /\ pc = "stopped"
    /\ polledBusy
    /\ ~ctxExpired
    /\ \E r \in Requests : req[r] = "done"

\* C11 as stated: a request that is in flight once Shutdown has returned
\* with the deadline exceeded never emits the "response" entry afterwards.
C11_NoResponseAfterTimeout ==
    [][\A r \in Requests :
          (shutdownErr = "deadline exceeded" /\ req[r] \in InFlight)
              => "response" \notin emitted'[r]]_vars

\* C11 amended: a request whose handler has not returned when the process
\* exits never emits the "response" entry.
C11_NoResponseOnceAbandoned ==
    \A r \in Requests : req[r] = "abandoned" => "response" \notin emitted[r]

\* C11 witness: the deadline passed, the process exited and killed a handler
\* that had logged "request"
C11_Witness ==
    /\ pc = "exited"
    /\ shutdownErr = "deadline exceeded"
    /\ \E r \in Requests : req[r] = "abandoned" /\ "request" \in emitted[r]

\* C12: once "invalid directory" is reported, no sandbox step was invoked, no
\* goroutine and no listener exist, nothing else was logged, and the
\* process has exited with a non-zero code.
C12_BadDirectoryStopsEverything ==
    Logged("invalid directory") =>
        /\ steps = <<>>
        /\ ~notified
        /\ lpc = "none"
        /\ ~lnOpen
        /\ \A r \in Requests : req[r] = "none"
        /\ mlog = <<"invalid directory">>
        /\ pc = "exited"
        /\ exitCode # 0

\* C12 witness: checkDirectory failed
C12_Witness ==
    /\ Logged("invalid directory")
    /\ pc = "exited"

\* the positions in the log of the entries that request r wrote with message m
Idx(r, m) == {i \in 1..Len(rlog) : rlog[i].owner = r /\ rlog[i].msg = m}

\* C13: a request whose inner handler has returned has written exactly one
\* "request" entry and exactly one "response" entry, the first before the
\* second and both with the same id, whatever other requests wrote between.
C13_OnePairSameIdInOrder ==
    \A r \in Requests :
        req[r] = "done" =>
            /\ Cardinality(Idx(r, "request")) = 1
            /\ Cardinality(Idx(r, "response")) = 1
            /\ \A i \in Idx(r, "request") : \A j \in Idx(r, "response") :
                   i < j /\ rlog[i].id = rlog[j].id /\ rlog[i].id # <<>>

\* C13 witness: two requests are done and an entry of the one lies between
\* the two entries of the other
C13_Witness ==
    \E r \in Requests : \E q \in Requests \ {r} :
        /\ req[r] = "done"
        /\ req[q] = "done"
        /\ \E i \in Idx(r, "request") : \E j \in Idx(r, "response") :
              \E k \in Idx(q, "request") \cup Idx(q, "response") : i < k /\ k < j

\* C14: two requests never have the same id, and the entries that carry one
\* id were all written by one request.
C14_DistinctIdsAndReassembly ==
    /\ \A r \in Requests : \A q \in Requests \ {r} :
           (rid[r] # <<>> /\ rid[q] # <<>>) => rid[r] # rid[q]
    /\ \A i \in 1..Len(rlog) : \A j \in 1..Len(rlog) :
           (rlog[i].id # <<>> /\ rlog[i].id = rlog[j].id)
               => rlog[i].owner = rlog[j].owner

\* the characters of a lowercase hexadecimal string
HexChars == {HexDigits[i] : i \in 1..Len(HexDigits)}

\* a string of 2 * requestIDSize lowercase hexadecimal characters: what
\* hex.DecodeString turns into requestIDSize bytes
IsHexID(id) ==
    /\ Len(id) = 2 * requestIDSize
    /\ \A k \in 1..Len(id) : id[k] \in HexChars

\* C15: the id of every "request" and "response" entry is 16 lowercase
\* hexadecimal characters, the fallback id included.
C15_IdIsSixteenHex ==
    \A i \in 1..Len(rlog) :
        rlog[i].msg \in {"request", "response"} => IsHexID(rlog[i].id)

\* C16: when getRequestID failed for a request, the failure has its own
\* entry, the request carries the fallback id, the middleware can go on to
\* the inner handler, and once the handler has returned both entries are
\* in the log with the fallback id.
C16_IdFailureDoesNotStopRequest ==
    \A r \in Requests :
        idSrc[r].err =>
            /\ Cardinality(Idx(r, "requestID")) = 1
            /\ rid[r] = Itoa(idSrc[r].nano)
            /\ req[r] \in {"gotid", "handling", "done"}
            /\ req[r] = "gotid" => ENABLED LoggingRequest(r)
            /\ req[r] = "handling" => Idx(r, "request") # {}
            /\ req[r] = "done" =>
                  /\ Idx(r, "request") # {}
                  /\ Idx(r, "response") # {}
                  /\ \A i \in Idx(r, "request") \cup Idx(r, "response") :
                         rlog[i].id = Itoa(idSrc[r].nano)
                  /\ \A e \in Idx(r, "requestID") : \A i \in Idx(r, "request") : e < i

\* C16 witness: a request whose identifier could not be generated is done
C16_Witness ==
    \E r \in Requests :
        /\ idSrc[r].err
        /\ req[r] = "done"
        /\ emitted[r] = {"request", "response"}

\* the calls of request r's handler that are of one of the kinds
CallsOf(r, kinds) == {k \in 1..Len(rwCalls[r]) : rwCalls[r][k].kind \in kinds}

\* the calls that capture a status
Capturing == {"WriteHeader", "Write"}

\* the least element of a non-empty set of positions
First(K) == CHOOSE k \in K : \A m \in K : k <= m

\* C17: the status of the "response" entry is the one the first capturing
\* call (WriteHeader or Write) left in the adapter, and every WriteHeader
\* is forwarded with its code.
C17_FirstCapturedStatusLogged ==
    \A r \in Requests :
        /\ \A k \in CallsOf(r, {"WriteHeader"}) : rwCalls[r][k].fwd = 1
        /\ CallsOf(r, Capturing) # {} =>
              \A i \in Idx(r, "response") :
                  rlog[i].status = rwCalls[r][First(CallsOf(r, Capturing))].after

\* C18: a Write that no WriteHeader precedes leaves 200 in the adapter; a
\* handler that only wrote is logged with status 200; every Write is
\* forwarded once and returns the byte count and the error of the sink.
C18_WriteDefaultsToOK ==
    \A r \in Requests :
        /\ \A k \in CallsOf(r, {"Write"}) :
              /\ rwCalls[r][k].wret = rwCalls[r][k].sinkRet
              /\ rwCalls[r][k].fwd = 1
              /\ CallsOf(r, {"WriteHeader"}) \cap 1..k = {} => rwCalls[r][k].after = 200
        /\ (CallsOf(r, {"Write"}) # {} /\ CallsOf(r, {"WriteHeader"}) = {}) =>
              /\ statusCode[r] = 200
              /\ \A i \in Idx(r, "response") : rlog[i].status = 200

\* C18 witness: the handler wrote, the sink reported a short write, no
\* status was ever set, and the request is logged
C18_Witness ==
    \E r \in Requests :
        /\ req[r] = "done"
        /\ CallsOf(r, {"WriteHeader"}) = {}
        /\ \E k \in CallsOf(r, {"Write"}) : rwCalls[r][k].wret.err = "short write"
        /\ \E i \in Idx(r, "response") : rlog[i].status = 200

\* C19: after WriteHeader(c), as long as WriteHeader is not called again,
\* every later call leaves c in the adapter, and c is what is logged.
C19_WriteKeepsExplicitStatus ==
    \A r \in Requests :
        \A j \in CallsOf(r, {"WriteHeader"}) :
            /\ \A k \in j..Len(rwCalls[r]) :
                   CallsOf(r, {"WriteHeader"}) \cap (j+1)..k = {}
                       => rwCalls[r][k].after = rwCalls[r][j].code
            /\ CallsOf(r, {"WriteHeader"}) \cap (j+1)..Len(rwCalls[r]) = {} =>
                   /\ statusCode[r] = rwCalls[r][j].code
                   /\ \A i \in Idx(r, "response") : rlog[i].status = rwCalls[r][j].code

\* C19 witness: WriteHeader(404), then two Writes, and 404 is logged
C19_Witness ==
    \E r \in Requests :
        /\ req[r] = "done"
        /\ Len(rwCalls[r]) >= 3
        /\ rwCalls[r][1].kind = "WriteHeader"
        /\ rwCalls[r][1].code = 404
        /\ rwCalls[r][2].kind = "Write"
        /\ rwCalls[r][3].kind = "Write"
        /\ \E i \in Idx(r, "response") : rlog[i].status = 404

\* C20: on a sink that is no http.Hijacker, Hijack returns (nil, nil, the
\* "not implemented" error), does not panic, calls nothing on the sink and
\* leaves the captured status as it was.
C20_HijackUnsupported ==
    \A r \in Requests :
        sinkCap[r] = "plain" =>
            \A k \in CallsOf(r, {"Hijack"}) :
                /\ rwCalls[r][k].hret.conn = "nil"
                /\ rwCalls[r][k].hret.brw = "nil"
                /\ rwCalls[r][k].hret.err = "not implemented"
                /\ ~rwCalls[r][k].hret.panicked
                /\ rwCalls[r][k].fwd = 0
                /\ rwCalls[r][k].after = rwCalls[r][k].before

\* C20 witness: a status was captured, then Hijack was called on a plain sink
C20_Witness ==
    \E r \in Requests :
        /\ sinkCap[r] = "plain"
        /\ \E k \in CallsOf(r, {"Hijack"}) : rwCalls[r][k].before = 404

\* C21: on a sink with the capabilities every Flush and every Hijack calls
\* the sink once and Hijack returns what the sink's Hijack returned; on a
\* sink without them Flush calls nothing; Flush never panics and leaves
\* the status alone.
C21_FlushHijackForwarded ==
    \A r \in Requests :
        /\ \A k \in CallsOf(r, {"Flush"}) :
              /\ rwCalls[r][k].fwd = IF sinkCap[r] = "full" THEN 1 ELSE 0
              /\ ~rwCalls[r][k].panicked
              /\ rwCalls[r][k].after = rwCalls[r][k].before
        /\ sinkCap[r] = "full" =>
              \A k \in CallsOf(r, {"Hijack"}) :
                  /\ rwCalls[r][k].fwd = 1
                  /\ rwCalls[r][k].hret = rwCalls[r][k].sinkH
                  /\ ~rwCalls[r][k].panicked

\* C21 witness: a handler flushed and then took over the connection of a
\* sink that supports both
C21_Witness ==
    \E r \in Requests :
        /\ sinkCap[r] = "full"
        /\ \E j \in CallsOf(r, {"Flush"}) : \E k \in CallsOf(r, {"Hijack"}) :
              j < k /\ rwCalls[r][k].hret.conn = "conn"

\* C22: every WriteHeader(c) on the adapter calls WriteHeader on the sink
\* once, with c.
C22_WriteHeaderPassThrough ==
    \A r \in Requests :
        \A k \in CallsOf(r, {"WriteHeader"}) :
            /\ rwCalls[r][k].fwd = 1
            /\ rwCalls[r][k].fwdCode = rwCalls[r][k].code
            /\ rwCalls[r][k].code \in StatusCodes

\* C22 witness: WriteHeader(201) followed by WriteHeader(500)
C22_Witness ==
    \E r \in Requests :
        \E j \in CallsOf(r, {"WriteHeader"}) : \E k \in CallsOf(r, {"WriteHeader"}) :
            j < k /\ rwCalls[r][j].fwdCode = 201 /\ rwCalls[r][k].fwdCode = 500

\* C23: on a platform other than OpenBSD every sandbox call returns nil,
\* setupSecurity never fails, main can always take its next start-up step,
\* and the run ends without the serving goroutine only for a bad directory.
C23_NoOpSandboxNeverFails ==
    platform = "other" =>
        /\ \A i \in 1..Len(steps) : steps[i].ok
        /\ ~Logged("failed to setup security restrictions")
        /\ (pc \notin {"init", "sandbox"} /\ ~Logged("invalid directory")) => SandboxComplete
        /\ pc \in {"sandbox", "setup", "spawn"} => ENABLED MainStep
        /\ (pc = "exited" /\ lpc = "none") => Logged("invalid directory")

\* C23 witness: the listener is open on a platform without pledge/unveil
C23_Witness ==
    /\ platform = "other"
    /\ SandboxComplete
    /\ lnOpen

\* the signal was the first event and no connection has been accepted
EarlySignal ==
    /\ first = "signal"
    /\ \A r \in Requests : req[r] = "none"

\* C24: from a state where the signal has been delivered before any
\* connection was accepted, no request ever writes an entry and the
\* process, once it has exited, has exited with code 0.
C24_EarlySignalQuietExit ==
    [](EarlySignal =>
          [](/\ \A r \in Requests : emitted[r] = {}
             /\ pc = "exited" => exitCode = 0))

\* the status the last call of request r's handler left in the adapter
FinalStatus(r) ==
    IF rwCalls[r] = <<>> THEN 0 ELSE rwCalls[r][Len(rwCalls[r])].after

\* C25: every "request" entry has the attributes id, method, path and
\* remote, every "response" entry has id, duration and status; the id is
\* the id of the request that wrote the entry and the status is the one
\* its adapter held when its handler returned.
C25_EntryAttributes ==
    \A i \in 1..Len(rlog) :
        /\ rlog[i].msg = "request" =>
              /\ {"id", "method", "path", "remote"} \subseteq rlog[i].attrs
              /\ rlog[i].id = rid[rlog[i].owner]
              /\ rlog[i].id # <<>>
        /\ rlog[i].msg = "response" =>
              /\ {"id", "duration", "status"} \subseteq rlog[i].attrs
              /\ rlog[i].id = rid[rlog[i].owner]
              /\ rlog[i].id # <<>>
              /\ rlog[i].status = FinalStatus(rlog[i].owner)

\* C25 witness: both entries of a request whose handler called
\* WriteHeader(201) and Write
C25_Witness ==
    \E r \in Requests :
        /\ Idx(r, "request") # {}
        /\ CallsOf(r, {"Write"}) # {}
        /\ \E i \in Idx(r, "response") : rlog[i].status = 201

\* the lifecycle state that main's position stands for: main negotiates
\* the sandbox in setupSecurity, serves from there until it leaves its
\* wait, shuts down until server.Shutdown has returned, and has failed
\* when fatal has exited the process
Phase ==
    CASE pc = "init" -> "Initializing"
      [] pc = "sandbox" -> "Negotiating-Sandbox"
      [] pc \in {"setup", "spawn", "wait", "parked", "goterr"} -> "Serving"
      [] pc \in {"gotstop", "shutdown"} -> "Shutting-Down"
      [] pc = "stopped" -> "Stopped"
      [] pc = "exited" -> IF exitCode = 0 THEN "Stopped" ELSE "Failed"

\* the transitions of the lifecycle
PhaseEdges ==
    {<<"Initializing", "Negotiating-Sandbox">>,
     <<"Negotiating-Sandbox", "Serving">>,
     <<"Serving", "Shutting-Down">>,
     <<"Shutting-Down", "Stopped">>}
    \cup {<<p, "Failed">> :
             p \in {"Initializing", "Negotiating-Sandbox", "Serving", "Shutting-Down"}}

\* C26: every step of the process leaves the lifecycle state as it is or
\* follows one of the transitions; none leaves Stopped or Failed.
C26_LifecycleOrder ==
    [][Phase' # Phase => <<Phase, Phase'>> \in PhaseEdges]_vars

\* C26 witness: the process has gone through the whole chain and returned
C26_Witness ==
    /\ Phase = "Stopped"
    /\ pc = "exited"
    /\ Logged("shutting down server")
    /\ Logged("stopped")

\* C27: once main has taken the signal, the outcome stays "shutdown": main
\* never takes the listener's error, "server failed" is never logged and
\* the exit code stays 0, whatever the goroutine reports afterwards.
C27_SignalSelectedIsFinal ==
    /\ [](outcome = "shutdown" =>
            /\ exitCode = 0
            /\ pc # "goterr"
            /\ ~Logged("server failed"))
    /\ [][outcome = "shutdown" => outcome' = "shutdown"]_vars

\* C27 witness: the process has exited with code 0 after the signal, and
\* the listener's error lies unread in errCh
C27_Witness ==
    /\ outcome = "shutdown"
    /\ pc = "exited"
    /\ exitCode = 0
    /\ first = "signal"
    /\ Len(errCh) > 0

\* C30: when ListenAndServe has returned http.ErrServerClosed, nothing is
\* sent on errCh, errCh is not closed, no listener error is logged, and
\* main neither takes an error nor fails.
C30_ServerClosedIsNotAnError ==
    listenErr = "ErrServerClosed" =>
        /\ errCh = <<>>
        /\ ~errChClosed
        /\ first # "error"
        /\ outcome # "failed"
        /\ pc # "goterr"
        /\ ~Logged("failed to start file server")
        /\ ~Logged("server failed")

\* C30 witness: after Shutdown, ListenAndServe returned ErrServerClosed and
\* the goroutine has ended
C30_Witness ==
    /\ listenErr = "ErrServerClosed"
    /\ lpc = "done"
    /\ inShutdown

\* C28: a buffer is held by at most one request, a held buffer is not in
\* the pool, a request holds its buffer from Get until its identifier is
\* encoded and getRequestID returns, and the identifier is the encoding of
\* the bytes that the request's own rand.Read wrote.
C28_BufferExclusive ==
    /\ \A r \in Requests : \A q \in Requests \ {r} :
           held[r] # 0 => held[r] # held[q]
    /\ \A r \in Requests : held[r] # 0 => held[r] \notin pool
    /\ \A r \in Requests : held[r] # 0 <=> req[r] \in {"got", "read", "encoded"}
    /\ \A r \in Requests :
           (req[r] \in {"encoded", "gotid"} /\ ~idSrc[r].err) =>
               rid[r] = HexEncode(idSrc[r].bytes)

\* C28 witness: a request has its identifier while another request, holding
\* the buffer the first one had put back, has written other bytes into it
C28_Witness ==
    \E r \in Requests : \E q \in Requests \ {r} :
        /\ req[r] = "gotid"
        /\ ~idSrc[r].err
        /\ req[q] = "read"
        /\ ~idSrc[q].err
        /\ held[q] = 1
        /\ pool = {}
        /\ idSrc[q].bytes # idSrc[r].bytes

\* one call on an adapter whose status is s: the status afterwards
StatusAfterCall(s, c) ==
    CASE c.kind = "WriteHeader" -> c.code
      [] c.kind = "Write" -> IF s = 0 THEN StatusOK ELSE s
      [] OTHER -> s

RECURSIVE Replay(_, _)
\* the status a fresh adapter holds after the calls cs, starting from s
Replay(s, cs) ==
    IF cs = <<>> THEN s ELSE Replay(StatusAfterCall(s, Head(cs)), Tail(cs))

\* C29: the status in a request's adapter, and in its "response" entry, is
\* the one its own handler's calls give on a fresh adapter, whatever the
\* other handlers called in between.
C29_StatusFromOwnCallsOnly ==
    \A r \in Requests :
        /\ statusCode[r] = Replay(0, rwCalls[r])
        /\ \A i \in Idx(r, "response") : rlog[i].status = Replay(0, rwCalls[r])

\* C29 witness: two handlers ran together, one called WriteHeader(404) and
\* Write, the other only Write, and they are logged with 404 and with 200
C29_Witness ==
    \E r \in Requests : \E q \in Requests \ {r} :
        /\ Len(rwCalls[r]) >= 2
        /\ CallsOf(q, {"Write"}) # {}
        /\ \E i \in Idx(r, "response") : rlog[i].status = 404
        /\ \E j \in Idx(q, "response") : rlog[j].status = 200

\* C31: a request whose handler called neither WriteHeader nor Write holds
\* the zero value in its adapter, whatever else the handler called, and
\* its "response" entry carries the status 0.
C31_NothingCapturedLogsZero ==
    \A r \in Requests :
        CallsOf(r, Capturing) = {} =>
            /\ statusCode[r] = 0
            /\ \A i \in Idx(r, "response") : rlog[i].status = 0

\* C31 witness: a handler has returned after calling only Flush and Hijack
\* and its "response" entry has been written with the status 0
C31_Witness ==
    \E r \in Requests :
        /\ req[r] = "done"
        /\ CallsOf(r, Capturing) = {}
        /\ CallsOf(r, {"Flush"}) # {}
        /\ CallsOf(r, {"Hijack"}) # {}
        /\ \E i \in Idx(r, "response") : rlog[i].status = 0

====
